---- MODULE Spec2Model ----
(***************************************************************************)
(* Model of skills/super-manager/shared/configuration_paths.py: the path   *)
(* registry of the super-manager and its lookup find_servers_yaml().       *)
(*                                                                         *)
(* Strings are sequences over an alphabet made of the path separator "/"   *)
(* and of atoms; an atom stands for a non-empty run of characters holding  *)
(* no separator (".claude", "u", "servers.yaml").  os.path is posixpath.   *)
(* os.environ is a function whose domain is the set of variables that are  *)
(* set; a variable may be set to the empty string <<>>.                    *)
(* The filesystem is the set fs of the path strings for which              *)
(* os.path.exists answers True at this instant.                            *)
(***************************************************************************)
EXTENDS Integers, Sequences, FiniteSets, TLC

VARIABLES
    environ,    \* os.environ of the processes (inherited, never written)
    fs,         \* the path strings that exist on the filesystem right now
    registry,   \* process -> the module's globals, for the processes that imported it
    last,       \* the most recent completed call, <<[proc, result]>>, or << >>
    prev,       \* the result of the completed call before it, <<result>>, or << >>
    fresh,      \* TRUE iff nothing has touched fs since the last completed call
    pc,         \* thread -> "idle" | "loop" | "return" | "done"
    it,         \* thread -> position of the for-loop's iterator in the list
    path,       \* thread -> the value about to be returned (the loop variable, or None)
    seen,       \* thread -> what os.path.exists answered, one entry per check made
    result,     \* thread -> the value the last call returned
    importedOnEmpty \* process -> TRUE iff fs was empty when it imported the module

vars == <<environ, fs, registry, last, prev, fresh, pc, it, path, seen, result, importedOnEmpty>>

-----------------------------------------------------------------------------
(* Bounds of the model *)

NumProcs == 2
NumThreads == 2

Procs == 1..NumProcs
Threads == 1..NumThreads

\* thread t runs inside process Owner(t)
Owner(t) == ((t - 1) % NumProcs) + 1

-----------------------------------------------------------------------------
(* Python values *)

sep == "/"

None == [isNone |-> TRUE, str |-> <<>>]
Str(s) == [isNone |-> FALSE, str |-> s]

\* the values the environment variables take in the model
EnvValues(name) ==
    CASE name = "HOME"             -> {<<>>, <<sep, "u">>, <<sep, "u", sep>>}
      [] name = "USERPROFILE"      -> {<<sep, "w">>}
      [] name = "MCP_SERVERS_YAML" -> {<<>>, <<sep, "o", sep, "servers.yaml">>}
      [] name = "MCP_DIR"          -> {<<sep, "m">>}

EnvNames == {"HOME", "USERPROFILE", "MCP_SERVERS_YAML", "MCP_DIR"}

Environments ==
    UNION { {e \in [S -> UNION {EnvValues(n) : n \in S}] :
                \A n \in S : e[n] \in EnvValues(n)} : S \in SUBSET EnvNames }

\* os.environ.get(name, default)
environ_get(name, default) ==
    IF name \in DOMAIN environ THEN environ[name] ELSE default

\* join_step with the separator always inserted, as a + "/" + b would
join_step_always_sep(a, b) ==
    IF b # <<>> /\ Head(b) = sep THEN b ELSE a \o <<sep>> \o b

\* one step of posixpath.join's loop: path joined with the segment b
join_step(a, b) ==
    IF b # <<>> /\ Head(b) = sep THEN b
    ELSE IF a = <<>> \/ a[Len(a)] = sep THEN a \o b
    ELSE a \o <<sep>> \o b

RECURSIVE join_from(_, _)
join_from(a, ps) ==
    IF ps = <<>> THEN a ELSE join_from(join_step(a, Head(ps)), Tail(ps))

\* os.path.join(a, *ps)
join(a, ps) == join_from(a, ps)

\* os.path.exists(p)
exists(p) == p \in fs

-----------------------------------------------------------------------------
(* The module's globals, as computed when the module is imported *)

\* HOME with the fallback as the default of the first lookup, as
\* os.environ.get("HOME", os.environ.get("USERPROFILE", "")) would
HOME_default_chain ==
    environ_get("HOME", environ_get("USERPROFILE", <<>>))

\* os.environ.get("HOME") or os.environ.get("USERPROFILE", ""):
\* None and "" are both falsy, so a HOME that is unset or empty falls through
HOME ==
    IF "HOME" \in DOMAIN environ /\ environ["HOME"] # <<>>
    THEN environ["HOME"]
    ELSE environ_get("USERPROFILE", <<>>)

CLAUDE_DIR == join(HOME, << <<".claude">> >>)
SUPER_MANAGER_DIR == join(CLAUDE_DIR, << <<"super-manager">> >>)

REGISTRIES_DIR == join(SUPER_MANAGER_DIR, << <<"registries">> >>)
INSTRUCTIONS_BASE == join(CLAUDE_DIR, << <<"instructions">> >>)
INSTRUCTIONS_DIR == INSTRUCTIONS_BASE
INSTRUCTIONS_BACKUP_DIR == join(INSTRUCTIONS_BASE, << <<"backups">> >>)
INSTRUCTIONS_REPOS_DIR == join(INSTRUCTIONS_BASE, << <<"repos">> >>)
INSTRUCTIONS_REPOS_CONFIG == join(INSTRUCTIONS_BASE, << <<"repos.json">> >>)
LOGS_DIR == join(SUPER_MANAGER_DIR, << <<"logs">> >>)
REPORTS_DIR == join(SUPER_MANAGER_DIR, << <<"reports">> >>)
ARCHIVE_DIR == join(SUPER_MANAGER_DIR, << <<"archive">> >>)
TESTS_DIR == join(SUPER_MANAGER_DIR, << <<"tests">> >>)
CREDENTIALS_DIR == join(SUPER_MANAGER_DIR, << <<"credentials">> >>)

CONFIG_DIR == join(SUPER_MANAGER_DIR, << <<"config">> >>)
CONFIG_REPOS_DIR == join(CONFIG_DIR, << <<"repos">> >>)
CONFIG_BACKUPS_DIR == join(CONFIG_DIR, << <<"backups">> >>)

CONFIG_REPOS_JSON == join(CONFIG_DIR, << <<"repos.json">> >>)
CONFIG_INSTALLED_JSON == join(CONFIG_DIR, << <<"installed.json">> >>)
CONFIG_PENDING_JSON == join(CONFIG_DIR, << <<"pending.json">> >>)

DEFAULT_CONFIG_REPO == <<"grobomo", sep, "claude-code-defaults">>

HOOK_REGISTRY == join(REGISTRIES_DIR, << <<"hook-registry.json">> >>)
SKILL_REGISTRY == join(REGISTRIES_DIR, << <<"skill-registry.json">> >>)
CONFIG_HASH_FILE == join(REGISTRIES_DIR, << <<"last-known-config-hash.txt">> >>)
CREDENTIAL_REGISTRY == join(CREDENTIALS_DIR, << <<"credential-registry.json">> >>)

CONFIG_REPORT == join(REPORTS_DIR, << <<"config-report.md">> >>)

SETTINGS_JSON == join(CLAUDE_DIR, << <<"settings.json">> >>)

HOOKS_DIR == join(CLAUDE_DIR, << <<"hooks">> >>)

GLOBAL_SKILLS_DIR == join(CLAUDE_DIR, << <<"skills">> >>)

\* the list literal of lines 59-63, before the empty entries are dropped
RAW_MCP_SERVERS_YAML_PATHS ==
    << environ_get("MCP_SERVERS_YAML", <<>>),
       join(HOME, << <<"mcp">>, <<"mcp-manager">>, <<"servers.yaml">> >>),
       join(REGISTRIES_DIR, << <<"servers.yaml">> >>) >>

\* the condition of the comprehension [p for p in ... if p]
truthy(p) == p # <<>>

\* the list with its empty entries kept
MCP_SERVERS_YAML_PATHS_unfiltered == RAW_MCP_SERVERS_YAML_PATHS

\* the list reduced at import to the entries that exist then
existing_then(p) == truthy(p) /\ exists(p)
MCP_SERVERS_YAML_PATHS_existing == SelectSeq(RAW_MCP_SERVERS_YAML_PATHS, existing_then)

MCP_SERVERS_YAML_PATHS == SelectSeq(RAW_MCP_SERVERS_YAML_PATHS, truthy)

SKILL_MGR_CLI ==
    join(GLOBAL_SKILLS_DIR, << <<"skill-marketplace">>, <<"cli">>, <<"skill-mgr">> >>)

\* the list with the entry "Stop" written twice
VALID_HOOK_EVENTS_repeated ==
    << "SessionStart", "SessionEnd", "UserPromptSubmit",
       "PreToolUse", "PostToolUse", "PreCompact",
       "Stop", "Stop", "PermissionRequest" >>

VALID_HOOK_EVENTS ==
    << "SessionStart", "SessionEnd", "UserPromptSubmit",
       "PreToolUse", "PostToolUse", "PreCompact",
       "Stop", "SubAgentSop", "PermissionRequest" >>

_MCP_DIR == environ_get("MCP_DIR", join(HOME, << <<"mcp">> >>))

KNOWN_ENV_FILES == << >>

SECRET_PATTERNS == << "TOKEN", "KEY", "SECRET", "PASSWORD", "PASS", "AUTH" >>

\* the globals of the imported module
Module ==
    [ HOME |-> HOME,
      CLAUDE_DIR |-> CLAUDE_DIR,
      SUPER_MANAGER_DIR |-> SUPER_MANAGER_DIR,
      REGISTRIES_DIR |-> REGISTRIES_DIR,
      INSTRUCTIONS_BASE |-> INSTRUCTIONS_BASE,
      INSTRUCTIONS_DIR |-> INSTRUCTIONS_DIR,
      INSTRUCTIONS_BACKUP_DIR |-> INSTRUCTIONS_BACKUP_DIR,
      INSTRUCTIONS_REPOS_DIR |-> INSTRUCTIONS_REPOS_DIR,
      INSTRUCTIONS_REPOS_CONFIG |-> INSTRUCTIONS_REPOS_CONFIG,
      LOGS_DIR |-> LOGS_DIR,
      REPORTS_DIR |-> REPORTS_DIR,
      ARCHIVE_DIR |-> ARCHIVE_DIR,
      TESTS_DIR |-> TESTS_DIR,
      CREDENTIALS_DIR |-> CREDENTIALS_DIR,
      CONFIG_DIR |-> CONFIG_DIR,
      CONFIG_REPOS_DIR |-> CONFIG_REPOS_DIR,
      CONFIG_BACKUPS_DIR |-> CONFIG_BACKUPS_DIR,
      CONFIG_REPOS_JSON |-> CONFIG_REPOS_JSON,
      CONFIG_INSTALLED_JSON |-> CONFIG_INSTALLED_JSON,
      CONFIG_PENDING_JSON |-> CONFIG_PENDING_JSON,
      DEFAULT_CONFIG_REPO |-> DEFAULT_CONFIG_REPO,
      HOOK_REGISTRY |-> HOOK_REGISTRY,
      SKILL_REGISTRY |-> SKILL_REGISTRY,
      CONFIG_HASH_FILE |-> CONFIG_HASH_FILE,
      CREDENTIAL_REGISTRY |-> CREDENTIAL_REGISTRY,
      CONFIG_REPORT |-> CONFIG_REPORT,
      SETTINGS_JSON |-> SETTINGS_JSON,
      HOOKS_DIR |-> HOOKS_DIR,
      GLOBAL_SKILLS_DIR |-> GLOBAL_SKILLS_DIR,
      MCP_SERVERS_YAML_PATHS |-> MCP_SERVERS_YAML_PATHS,
      SKILL_MGR_CLI |-> SKILL_MGR_CLI,
      VALID_HOOK_EVENTS |-> VALID_HOOK_EVENTS,
      _MCP_DIR |-> _MCP_DIR,
      KNOWN_ENV_FILES |-> KNOWN_ENV_FILES,
      SECRET_PATTERNS |-> SECRET_PATTERNS ]

-----------------------------------------------------------------------------
(* find_servers_yaml *)

\* the for-loop over the list ps from position i on
RECURSIVE scan(_, _)
scan(ps, i) ==
    IF i > Len(ps) THEN None
    ELSE IF exists(ps[i]) THEN Str(ps[i])
    ELSE scan(ps, i + 1)

\* the loop without its early return: the last existing candidate wins
RECURSIVE scan_last(_, _, _)
scan_last(ps, i, found) ==
    IF i > Len(ps) THEN found
    ELSE scan_last(ps, i + 1, IF exists(ps[i]) THEN Str(ps[i]) ELSE found)

find_servers_yaml_last(p) == scan_last(registry[p].MCP_SERVERS_YAML_PATHS, 1, None)

\* the lookup falling back on the last candidate instead of None
find_servers_yaml_default(p) ==
    LET ps == registry[p].MCP_SERVERS_YAML_PATHS
        r == scan(ps, 1)
    IN  IF r.isNone THEN Str(ps[Len(ps)]) ELSE r

\* the lookup answering from the previous call of the process when there is one
find_servers_yaml_cached(p) ==
    IF last # << >> /\ last[1].proc = p
    THEN last[1].result
    ELSE scan(registry[p].MCP_SERVERS_YAML_PATHS, 1)

\* the value find_servers_yaml() returns in process p when nothing else runs
find_servers_yaml(p) == scan(registry[p].MCP_SERVERS_YAML_PATHS, 1)

-----------------------------------------------------------------------------
(* The files other programs may create or remove: the candidate locations *)

Range(s) == {s[i] : i \in DOMAIN s}

Files == {f \in Range(RAW_MCP_SERVERS_YAML_PATHS) : f # <<>>}

-----------------------------------------------------------------------------
(* Actions *)

Init ==
    /\ environ \in Environments
    /\ fs = {}
    /\ registry = << >>
    /\ last = << >>
    /\ prev = << >>
    /\ fresh = FALSE
    /\ pc = [t \in Threads |-> "idle"]
    /\ it = [t \in Threads |-> 1]
    /\ path = [t \in Threads |-> None]
    /\ seen = [t \in Threads |-> << >>]
    /\ result = [t \in Threads |-> None]
    /\ importedOnEmpty = << >>

\* process p imports the module: lines 10-96 run once.  Processes are numbered
\* in the order in which they import it.
Import(p) ==
    /\ p \notin DOMAIN registry
    /\ p = 1 \/ (p - 1) \in DOMAIN registry
    /\ registry' = (p :> Module) @@ registry
    /\ importedOnEmpty' = (p :> (fs = {})) @@ importedOnEmpty
    /\ UNCHANGED <<environ, fs, last, prev, fresh, pc, it, path, seen, result>>

\* another program creates the file f
Create(f) ==
    /\ f \notin fs
    /\ fs' = fs \cup {f}
    /\ fresh' = FALSE
    /\ UNCHANGED <<environ, registry, last, prev, pc, it, path, seen, result, importedOnEmpty>>

\* another program removes the file f
Remove(f) ==
    /\ f \in fs
    /\ fs' = fs \ {f}
    /\ fresh' = FALSE
    /\ UNCHANGED <<environ, registry, last, prev, pc, it, path, seen, result, importedOnEmpty>>

\* the call consuming the list it walks, as a loop over pop(0) would
Call_consuming(p) ==
    /\ p \in DOMAIN registry
    /\ last' = <<[proc |-> p, result |-> find_servers_yaml(p)]>>
    /\ prev' = IF last = << >> THEN << >> ELSE <<last[1].result>>
    /\ fresh' = TRUE
    /\ registry' = [registry EXCEPT ![p].MCP_SERVERS_YAML_PATHS =
                        IF find_servers_yaml(p).isNone THEN << >> ELSE Tail(@)]
    /\ UNCHANGED <<environ, fs, pc, it, path, seen, result, importedOnEmpty>>

\* a whole call of find_servers_yaml() in process p, nothing running meanwhile
Call(p) ==
    /\ p \in DOMAIN registry
    /\ last' = <<[proc |-> p, result |-> find_servers_yaml(p)]>>
    /\ prev' = IF last = << >> THEN << >> ELSE <<last[1].result>>
    /\ fresh' = TRUE
    /\ UNCHANGED <<environ, fs, registry, pc, it, path, seen, result, importedOnEmpty>>

Next ==
    \/ \E p \in Procs : Import(p)
    \/ \E f \in Files : Create(f)
    \/ \E f \in Files : Remove(f)
    \/ \E p \in Procs : Call(p)

Spec == Init /\ [][Next]_vars

-----------------------------------------------------------------------------
(* find_servers_yaml() step by step, for calls that run while other        *)
(* programs change the filesystem.  One step is one os.path.exists call;   *)
(* the return statement is a step of its own.                              *)

\* thread t enters find_servers_yaml(): the for statement takes an iterator
Begin(t) ==
    /\ pc[t] \in {"idle", "done"}
    /\ Owner(t) \in DOMAIN registry
    /\ pc' = [pc EXCEPT ![t] = "loop"]
    /\ it' = [it EXCEPT ![t] = 1]
    /\ path' = [path EXCEPT ![t] = None]
    /\ seen' = [seen EXCEPT ![t] = << >>]
    /\ result' = [result EXCEPT ![t] = None]
    /\ UNCHANGED <<environ, fs, registry, last, prev, fresh, importedOnEmpty>>

\* the iteration without the early return: a found candidate is remembered
\* and the loop goes on
Check_no_return(t) ==
    /\ pc[t] = "loop"
    /\ LET ps == registry[Owner(t)].MCP_SERVERS_YAML_PATHS IN
        IF it[t] > Len(ps)
        THEN /\ pc' = [pc EXCEPT ![t] = "return"]
             /\ UNCHANGED <<it, seen, path>>
        ELSE /\ seen' = [seen EXCEPT ![t] = Append(@, exists(ps[it[t]]))]
             /\ it' = [it EXCEPT ![t] = @ + 1]
             /\ path' = IF exists(ps[it[t]])
                        THEN [path EXCEPT ![t] = Str(ps[it[t]])]
                        ELSE path
             /\ UNCHANGED pc
    /\ UNCHANGED <<environ, fs, registry, last, prev, fresh, result, importedOnEmpty>>

\* one iteration of the loop: the next candidate is taken and checked; an
\* exhausted iterator leaves the loop for "return None"
Check(t) ==
    /\ pc[t] = "loop"
    /\ LET ps == registry[Owner(t)].MCP_SERVERS_YAML_PATHS IN
        IF it[t] > Len(ps)
        THEN /\ pc' = [pc EXCEPT ![t] = "return"]
             /\ path' = [path EXCEPT ![t] = None]
             /\ UNCHANGED <<it, seen>>
        ELSE /\ seen' = [seen EXCEPT ![t] = Append(@, exists(ps[it[t]]))]
             /\ IF exists(ps[it[t]])
                THEN /\ pc' = [pc EXCEPT ![t] = "return"]
                     /\ path' = [path EXCEPT ![t] = Str(ps[it[t]])]
                     /\ UNCHANGED it
                ELSE /\ it' = [it EXCEPT ![t] = @ + 1]
                     /\ UNCHANGED <<pc, path>>
    /\ UNCHANGED <<environ, fs, registry, last, prev, fresh, result, importedOnEmpty>>

\* the return statement hands the value to the caller
Return(t) ==
    /\ pc[t] = "return"
    /\ result' = [result EXCEPT ![t] = path[t]]
    /\ pc' = [pc EXCEPT ![t] = "done"]
    /\ UNCHANGED <<environ, fs, registry, last, prev, fresh, it, path, seen, importedOnEmpty>>

\* the environments of the step-by-step runs: the home directory set, the
\* override unset, empty or set (a list of two or of three candidates)
ConcEnvironments ==
    {e \in Environments : /\ DOMAIN e \subseteq {"HOME", "MCP_SERVERS_YAML"}
                           /\ "HOME" \in DOMAIN e
                           /\ e["HOME"] = <<sep, "u">>}

\* every process has imported the module before its threads run
InitConc ==
    /\ environ \in ConcEnvironments
    /\ fs = {}
    /\ registry = [p \in Procs |-> Module]
    /\ importedOnEmpty = [p \in Procs |-> TRUE]
    /\ last = << >>
    /\ prev = << >>
    /\ fresh = FALSE
    /\ pc = [t \in Threads |-> "idle"]
    /\ it = [t \in Threads |-> 1]
    /\ path = [t \in Threads |-> None]
    /\ seen = [t \in Threads |-> << >>]
    /\ result = [t \in Threads |-> None]

NextConc ==
    \/ \E f \in Files : Create(f)
    \/ \E f \in Files : Remove(f)
    \/ \E t \in Threads : Begin(t)
    \/ \E t \in Threads : Check(t)
    \/ \E t \in Threads : Return(t)

\* a thread that is inside the call keeps being scheduled
Fairness == \A t \in Threads : WF_vars(Check(t)) /\ WF_vars(Return(t))

SpecConc == InitConc /\ [][NextConc]_vars /\ Fairness

-----------------------------------------------------------------------------
(* Vocabulary of the properties *)

Loaded == DOMAIN registry

\* the search list process p holds
Paths(p) == registry[p].MCP_SERVERS_YAML_PATHS

\* the most recent completed call
LastCall == last[1]

\* i is the least position of ps whose path is in the set of files F
FirstIn(ps, F, i) ==
    /\ i \in 1..Len(ps)
    /\ ps[i] \in F
    /\ \A j \in 1..(i - 1) : ps[j] \notin F

\* the name segments segs written out with one separator between neighbours
RECURSIVE Slashed(_)
Slashed(segs) ==
    IF Len(segs) = 0 THEN << >>
    ELSE IF Len(segs) = 1 THEN <<segs[1]>>
    ELSE <<segs[1], sep>> \o Slashed(Tail(segs))

\* the base b, closed by one separator unless it is empty or already ends in one
Closed(b) == IF b = << >> \/ b[Len(b)] = sep THEN b ELSE b \o <<sep>>

\* the name segments below the base directory of every derived path
Segments ==
    [ CLAUDE_DIR |-> <<".claude">>,
      SUPER_MANAGER_DIR |-> <<".claude", "super-manager">>,
      REGISTRIES_DIR |-> <<".claude", "super-manager", "registries">>,
      INSTRUCTIONS_BASE |-> <<".claude", "instructions">>,
      INSTRUCTIONS_DIR |-> <<".claude", "instructions">>,
      INSTRUCTIONS_BACKUP_DIR |-> <<".claude", "instructions", "backups">>,
      INSTRUCTIONS_REPOS_DIR |-> <<".claude", "instructions", "repos">>,
      INSTRUCTIONS_REPOS_CONFIG |-> <<".claude", "instructions", "repos.json">>,
      LOGS_DIR |-> <<".claude", "super-manager", "logs">>,
      REPORTS_DIR |-> <<".claude", "super-manager", "reports">>,
      ARCHIVE_DIR |-> <<".claude", "super-manager", "archive">>,
      TESTS_DIR |-> <<".claude", "super-manager", "tests">>,
      CREDENTIALS_DIR |-> <<".claude", "super-manager", "credentials">>,
      CONFIG_DIR |-> <<".claude", "super-manager", "config">>,
      CONFIG_REPOS_DIR |-> <<".claude", "super-manager", "config", "repos">>,
      CONFIG_BACKUPS_DIR |-> <<".claude", "super-manager", "config", "backups">>,
      CONFIG_REPOS_JSON |-> <<".claude", "super-manager", "config", "repos.json">>,
      CONFIG_INSTALLED_JSON |-> <<".claude", "super-manager", "config", "installed.json">>,
      CONFIG_PENDING_JSON |-> <<".claude", "super-manager", "config", "pending.json">>,
      HOOK_REGISTRY |-> <<".claude", "super-manager", "registries", "hook-registry.json">>,
      SKILL_REGISTRY |-> <<".claude", "super-manager", "registries", "skill-registry.json">>,
      CONFIG_HASH_FILE |->
          <<".claude", "super-manager", "registries", "last-known-config-hash.txt">>,
      CREDENTIAL_REGISTRY |->
          <<".claude", "super-manager", "credentials", "credential-registry.json">>,
      CONFIG_REPORT |-> <<".claude", "super-manager", "reports", "config-report.md">>,
      SETTINGS_JSON |-> <<".claude", "settings.json">>,
      HOOKS_DIR |-> <<".claude", "hooks">>,
      GLOBAL_SKILLS_DIR |-> <<".claude", "skills">>,
      SKILL_MGR_CLI |-> <<".claude", "skills", "skill-marketplace", "cli", "skill-mgr">> ]

DerivedPaths == DOMAIN Segments

\* the value of the home-directory variable, the primary one when it is set
\* (to anything, the empty string included), the fallback one otherwise
HomeVariable ==
    IF "HOME" \in DOMAIN environ THEN environ["HOME"]
    ELSE IF "USERPROFILE" \in DOMAIN environ THEN environ["USERPROFILE"]
    ELSE << >>

-----------------------------------------------------------------------------
(* C1 *)

\* C1: a call that ran alone returns the first candidate of the search list, in
\* list order, whose path exists, as the very string stored in the list; it
\* never returns a candidate that has an existing candidate before it.
C1_FirstExistingInOrder ==
    fresh =>
        LET ps == Paths(LastCall.proc) IN
        /\ \A i \in 1..Len(ps) :
              FirstIn(ps, fs, i) => LastCall.result = Str(ps[i])
        /\ ~LastCall.result.isNone =>
              \E i \in 1..Len(ps) :
                 FirstIn(ps, fs, i) /\ LastCall.result.str = ps[i]

\* only the second of three candidates exists and the call returned the second
C1_Witness ==
    /\ fresh
    /\ Len(Paths(LastCall.proc)) = 3
    /\ fs = {Paths(LastCall.proc)[2]}
    /\ LastCall.result = Str(Paths(LastCall.proc)[2])

(* C2 *)

\* C2: a call that ran alone returns None exactly when no candidate of the
\* search list exists; the outcome is always a returned value, None or a
\* string, never an exception.
C2_NoneIffNoCandidate ==
    fresh =>
        LET ps == Paths(LastCall.proc) IN
        /\ LastCall.result.isNone <=> (\A i \in 1..Len(ps) : ps[i] \notin fs)
        /\ LastCall.result \in {None} \cup {Str(ps[i]) : i \in 1..Len(ps)}

\* no candidate exists and the call returned None
C2_Witness ==
    /\ fresh
    /\ fs = {}
    /\ Len(Paths(LastCall.proc)) = 3
    /\ LastCall.result = None

(* C3 *)

\* C3: the search list is the override (when set and non-empty), then
\* <home>/mcp/mcp-manager/servers.yaml, then <registries>/servers.yaml; an
\* unset or empty override leaves exactly the last two, in that order.
C3_SearchList ==
    \A p \in Loaded :
        LET b == Closed(registry[p].HOME)
                    \o Slashed(<<"mcp", "mcp-manager", "servers.yaml">>)
            c == Closed(registry[p].REGISTRIES_DIR) \o <<"servers.yaml">>
        IN  IF "MCP_SERVERS_YAML" \in DOMAIN environ
               /\ environ["MCP_SERVERS_YAML"] # << >>
            THEN Paths(p) = <<environ["MCP_SERVERS_YAML"], b, c>>
            ELSE Paths(p) = <<b, c>>

\* the override is set to the empty string and the list holds two entries
C3_Witness ==
    /\ "MCP_SERVERS_YAML" \in DOMAIN environ
    /\ environ["MCP_SERVERS_YAML"] = << >>
    /\ \E p \in Loaded : Len(Paths(p)) = 2

(* C4 *)

\* C4 as stated: the fallback variable is used only if the primary is absent,
\* so a primary that is set, to whatever value, is the base directory.
C4_Original ==
    \A p \in Loaded :
        registry[p].HOME =
            IF "HOME" \in DOMAIN environ THEN environ["HOME"]
            ELSE IF "USERPROFILE" \in DOMAIN environ THEN environ["USERPROFILE"]
            ELSE << >>

\* C4 amended: the base directory is the primary variable when it is set and
\* not empty; otherwise the fallback variable when it is set; otherwise the
\* empty string.
C4_BaseDirectory ==
    \A p \in Loaded :
        registry[p].HOME =
            IF "HOME" \in DOMAIN environ /\ Len(environ["HOME"]) > 0
            THEN environ["HOME"]
            ELSE IF "USERPROFILE" \in DOMAIN environ THEN environ["USERPROFILE"]
            ELSE << >>

\* the primary is set to the empty string and the fallback's value is the base
C4_Witness ==
    /\ "HOME" \in DOMAIN environ
    /\ environ["HOME"] = << >>
    /\ "USERPROFILE" \in DOMAIN environ
    /\ environ["USERPROFILE"] = <<sep, "w">>
    /\ \E p \in Loaded : registry[p].HOME = <<sep, "w">>

(* C5 *)

\* C5 as stated: every derived path is the value H of the home-directory
\* variable followed by a fixed literal suffix, the suffix written with or
\* without its leading separator.
C5_Original ==
    \A p \in Loaded : \A d \in DerivedPaths :
        \/ registry[p][d] = HomeVariable \o <<sep>> \o Slashed(Segments[d])
        \/ registry[p][d] = HomeVariable \o Slashed(Segments[d])

\* C5 amended: every derived path is the base directory (C4), one separator
\* unless the base is empty or already ends in one, and the fixed relative
\* suffix; with an empty base it is the relative suffix alone.
C5_DerivedPaths ==
    \A p \in Loaded : \A d \in DerivedPaths :
        /\ registry[p][d] = Closed(registry[p].HOME) \o Slashed(Segments[d])
        /\ registry[p].HOME = << >> => registry[p][d] = Slashed(Segments[d])

\* neither home-directory variable is set and the hooks path is relative
C5_Witness ==
    /\ "HOME" \notin DOMAIN environ
    /\ "USERPROFILE" \notin DOMAIN environ
    /\ \E p \in Loaded : registry[p].HOOKS_DIR = <<".claude", sep, "hooks">>

(* C6 *)

\* C6: two processes that import the module under the same environment hold
\* identical globals, whatever the filesystem held at either import.
C6_SameEnvironmentSameRegistry ==
    \A p \in Loaded : \A q \in Loaded : registry[p] = registry[q]

\* two imports, one with an empty filesystem and one with a file present
C6_Witness ==
    \E p \in Loaded : \E q \in Loaded :
        importedOnEmpty[p] /\ ~importedOnEmpty[q]

(* C7 *)

\* C7: once a process has imported the module no step changes any of its
\* globals, and a call of find_servers_yaml() leaves the filesystem as it was.
C7_ReadOnly ==
    [][ /\ \A p \in Loaded : p \in DOMAIN registry' /\ registry'[p] = registry[p]
        /\ \A p \in Procs : Call(p) => fs' = fs ]_vars

\* calls were made, the filesystem changed afterwards, and the globals are
\* those of the import
C7_Witness ==
    /\ prev # << >>
    /\ ~fresh
    /\ fs # {}
    /\ \A p \in Loaded : Len(Paths(p)) >= 2

(* C8 *)

\* C8: every call answers from the filesystem as it is when the call is made:
\* the first candidate existing then, or None, whatever earlier calls returned.
C8_CallTimeFilesystem ==
    [][ \A p \in Procs : Call(p) =>
          LET c == last'[1]
              ps == registry[p].MCP_SERVERS_YAML_PATHS
          IN  IF \E i \in 1..Len(ps) : ps[i] \in fs
              THEN \E i \in 1..Len(ps) : FirstIn(ps, fs, i) /\ c.result = Str(ps[i])
              ELSE c.result = None ]_vars

\* two calls in a row that returned different paths
C8_Witness ==
    /\ fresh
    /\ prev # << >>
    /\ ~prev[1].isNone
    /\ ~LastCall.result.isNone
    /\ prev[1] # LastCall.result

(* C9 *)

\* C9: VALID_HOOK_EVENTS holds exactly 9 entries, each a non-empty token, no
\* two of them equal.
C9_ValidHookEvents ==
    \A p \in Loaded :
        LET ev == registry[p].VALID_HOOK_EVENTS IN
        /\ Len(ev) = 9
        /\ \A i \in 1..Len(ev) : ev[i] # ""
        /\ \A i \in 1..Len(ev) : \A j \in 1..Len(ev) : i # j => ev[i] # ev[j]

\* a process holds the list
C9_Witness ==
    \E p \in Loaded : "PermissionRequest" \in Range(registry[p].VALID_HOOK_EVENTS)

(* C10 *)

\* what a finished call of thread t returned agrees with what each check saw
Consistent(t) ==
    LET ps == Paths(Owner(t))
        n == Len(seen[t])
    IN  /\ n <= Len(ps)
        /\ \A j \in 1..(n - 1) : ~seen[t][j]
        /\ IF result[t].isNone
           THEN n = Len(ps) /\ \A j \in 1..n : ~seen[t][j]
           ELSE n >= 1 /\ seen[t][n] /\ result[t] = Str(ps[n])

\* C10: interleaved step by step with file creations and removals, every call
\* ends, and returns None or the member of the list that existed when it was
\* checked, every earlier one having been absent when it was checked; None
\* only if each candidate was absent when it was checked.
C10_InterleavedCalls ==
    /\ [](\A t \in Threads : pc[t] = "done" => Consistent(t))
    /\ \A t \in Threads : (pc[t] = "loop") ~> (pc[t] = "done")

\* a thread is about to return a path that no longer exists while a candidate
\* of higher priority exists, a second thread being inside its own call
C10_Witness ==
    \E t \in Threads : \E u \in Threads :
        /\ t # u
        /\ pc[u] = "loop"
        /\ pc[t] = "return"
        /\ ~path[t].isNone
        /\ path[t].str \notin fs
        /\ Len(seen[t]) >= 2
        /\ Paths(Owner(t))[1] \in fs

====
